---- MODULE Spec2Model ----
(***************************************************************************)
(* A model of the go-tfe client: the Accounts, Runs, Registry and SSHKeys  *)
(* resource modules, the request builder and response decoder they share,  *)
(* and the HTTP transport they talk to.                                    *)
(*                                                                         *)
(* A string is a sequence of one-character strings, so that escaping and   *)
(* path segments can be computed; the fixed words of a path ("runs",       *)
(* "actions", ...) are single elements.  Messages and attribute values     *)
(* that are never taken apart are plain strings.                           *)
(***************************************************************************)
EXTENDS Integers, Sequences, FiniteSets, TLC

VARIABLES
    transport,  \* the HTTP transport the client is configured with
    server,     \* the remote server's resources (behind the "fixture" transport)
    last,       \* the last operation call: its arguments, requests and return values
    deleted,    \* history: IDs of the SSH keys a Delete has removed
    fresh       \* history: SSH key ID -> what Create was given and returned, until an
                \* Update or Delete of that ID

vars == <<transport, server, last, deleted, fresh>>

----------------------------------------------------------------------------
(* Bounds *)

MaxRuns == 2
MaxKeys == 2

----------------------------------------------------------------------------
(* Values *)

\* A nil *string (as opposed to a pointer to "").
NilStr == "<nil>"

\* A nil pointer to a struct, a nil slice, a nil interface.
Nil == [kind |-> "nil"]

\* The identifiers a caller passes: empty, whitespace-only, plain, and one
\* with a path-breaking character.
Idents == { <<>>, <<" ">>, <<"a">>, <<"a", "/", "b">> }

\* A prefix of a server-assigned identifier followed by its number.
ServerID(prefix, i) == <<prefix, ToString(i)>>

RunIDs == { ServerID("run-", i) : i \in 1..MaxRuns }
KeyIDs == { ServerID("sshkey-", i) : i \in 1..MaxKeys }

CallerIDs == { <<>>, <<"spoofed">> }

\* The provider and version arguments of the Registry operations.
Providers == { <<>>, <<"a">> }
Versions == { <<"a">>, <<"a", "/", "b">> }
Names == {"n1", "n2"}
Secrets == {"v1"}

ErrBuild     == "malformed base URL"
ErrTransport == "connection refused"
ErrDecode    == "decoding error"
ErrNotFound  == "Error: not found"
ErrAPI       == "Error: request failed"

----------------------------------------------------------------------------
(* Strings *)

RECURSIVE Concat(_)
Concat(ss) == IF ss = <<>> THEN <<>> ELSE Head(ss) \o Concat(Tail(ss))

\* url.QueryEscape on one character: letters, digits, '-', '_', '.', '~'
\* stay; a space becomes '+'; anything else becomes %XX.
EscapeChar(c) ==
    CASE c = " " -> <<"+">>
      [] c = "/" -> <<"%", "2", "F">>
      [] c = "%" -> <<"%", "2", "5">>
      [] c = "+" -> <<"%", "2", "B">>
      [] OTHER   -> <<c>>

RECURSIVE QueryEscape(_)
QueryEscape(s) ==
    IF s = <<>> THEN <<>> ELSE EscapeChar(Head(s)) \o QueryEscape(Tail(s))

\* The server's inverse of QueryEscape.
RECURSIVE QueryUnescape(_)
QueryUnescape(s) ==
    IF s = <<>> THEN <<>>
    ELSE IF Head(s) = "+" THEN <<" ">> \o QueryUnescape(Tail(s))
    ELSE IF Head(s) = "%" /\ Len(s) >= 3 THEN
        LET hex == <<s[2], s[3]>>
            c == CASE hex = <<"2", "F">> -> "/"
                   [] hex = <<"2", "5">> -> "%"
                   [] hex = <<"2", "B">> -> "+"
                   [] OTHER -> "?"
        IN <<c>> \o QueryUnescape(SubSeq(s, 4, Len(s)))
    ELSE <<Head(s)>> \o QueryUnescape(Tail(s))

\* The segments of a path: the pieces between its '/' characters.
RECURSIVE Split(_)
Split(p) ==
    IF \A i \in 1..Len(p) : p[i] # "/" THEN <<p>>
    ELSE LET k == CHOOSE i \in 1..Len(p) : p[i] = "/" /\ \A j \in 1..(i-1) : p[j] # "/"
         IN <<SubSeq(p, 1, k-1)>> \o Split(SubSeq(p, k+1, Len(p)))

----------------------------------------------------------------------------
(* Validation helpers *)

\* validStringID: the identifier is non-empty and not whitespace-only.
validStringID(v) == v # <<>> /\ \E i \in 1..Len(v) : v[i] # " "

\* validString: the pointer is non-nil and the string is not empty.
validString(v) == v # NilStr /\ v # ""

----------------------------------------------------------------------------
(* Options and the documents built from them *)

NoOptions == [kind |-> "none"]

\* The attributes of a document: every field, but for a nil field tagged
\* omitempty.  A field is <<attribute name, value, omitempty>>.
Present(fields) ==
    [n \in {f[1] : f \in {g \in fields : ~(g[3] /\ g[2] = NilStr)}} |->
        (CHOOSE f \in fields : f[1] = n)[2]]

Doc(type, id, attrs, rels) ==
    [kind |-> "doc", type |-> type, id |-> id, attrs |-> attrs, rels |-> rels]

NoRels == [n \in {} |-> <<>>]

\* AccountUpdateOptions with the omitempty tags forgotten: a nil field is sent.
AccountUpdateOptionsBody_NoOmit(o) ==
    Doc("users", o.ID,
        Present({<<"username", o.Username, FALSE>>, <<"email", o.Email, FALSE>>}),
        NoRels)

\* AccountUpdateOptions: ID is the primary field; both attributes are omitempty.
AccountUpdateOptionsBody(o) ==
    Doc("users", o.ID,
        Present({<<"username", o.Username, TRUE>>, <<"email", o.Email, TRUE>>}),
        NoRels)

\* TwoFactorEnableOptions: delivery is always sent, sms-number is omitempty.
TwoFactorEnableOptionsBody(o) ==
    Doc("users", o.ID,
        Present({<<"delivery", o.Delivery, FALSE>>, <<"sms-number", o.SMSNumber, TRUE>>}),
        NoRels)

\* TwoFactorVerifyOptions: code is always sent.
TwoFactorVerifyOptionsBody(o) ==
    Doc("organizations", o.ID, Present({<<"code", o.Code, FALSE>>}), NoRels)

\* RunCreateOptions: message is omitempty; the workspace goes as a relation.
RunCreateOptionsBody(o) ==
    Doc("runs", o.ID,
        Present({<<"message", o.Message, TRUE>>}),
        [n \in {"workspace"} |->
            IF o.Workspace.kind = "nil" THEN <<>> ELSE o.Workspace.ID])

\* RunApplyOptions, RunCancelOptions, RunDiscardOptions: plain JSON, the
\* comment is omitempty.
RunActionOptionsBody(o) ==
    Doc("", <<>>, Present({<<"comment", o.Comment, TRUE>>}), NoRels)

\* ListOptions go into the query; a zero page number or size is left out.
ListOptionsQuery(o) ==
    [kind |-> "query", number |-> o.PageNumber, size |-> o.PageSize]

\* ModuleCreateOptions, ModuleCreateVersionOptions, ModulePublishOptions.
ModuleCreateOptionsBody(o) ==
    Doc("", <<>>,
        Present({<<"name", o.Name, FALSE>>, <<"provider", o.Provider, FALSE>>}),
        NoRels)

ModuleCreateVersionOptionsBody(o) ==
    Doc("", <<>>, Present({<<"version", o.Version, FALSE>>}), NoRels)

ModulePublishOptionsBody(o) ==
    Doc("", <<>>, Present({<<"vcs-repo", o.ModuleVCSOptions, FALSE>>}), NoRels)

\* SSHKeyCreateOptions and SSHKeyUpdateOptions.
SSHKeyCreateOptionsBody(o) ==
    Doc("ssh-keys", <<>>,
        Present({<<"name", o.Name, FALSE>>, <<"value", o.Value, FALSE>>}),
        NoRels)

SSHKeyUpdateOptionsBody(o) ==
    Doc("ssh-keys", <<>>,
        Present({<<"name", o.Name, TRUE>>, <<"value", o.Value, TRUE>>}),
        NoRels)

Marshal(o) ==
    CASE o.kind = "none"                       -> Nil
      [] o.kind = "AccountUpdateOptions"       -> AccountUpdateOptionsBody(o)
      [] o.kind = "TwoFactorEnableOptions"     -> TwoFactorEnableOptionsBody(o)
      [] o.kind = "TwoFactorVerifyOptions"     -> TwoFactorVerifyOptionsBody(o)
      [] o.kind = "RunCreateOptions"           -> RunCreateOptionsBody(o)
      [] o.kind = "RunListOptions"             -> ListOptionsQuery(o)
      [] o.kind = "RunApplyOptions"            -> RunActionOptionsBody(o)
      [] o.kind = "RunCancelOptions"           -> RunActionOptionsBody(o)
      [] o.kind = "RunDiscardOptions"          -> RunActionOptionsBody(o)
      [] o.kind = "ModuleCreateOptions"        -> ModuleCreateOptionsBody(o)
      [] o.kind = "ModuleCreateVersionOptions" -> ModuleCreateVersionOptionsBody(o)
      [] o.kind = "ModulePublishOptions"       -> ModulePublishOptionsBody(o)
      [] o.kind = "SSHKeyListOptions"          -> ListOptionsQuery(o)
      [] o.kind = "SSHKeyCreateOptions"        -> SSHKeyCreateOptionsBody(o)
      [] o.kind = "SSHKeyUpdateOptions"        -> SSHKeyUpdateOptionsBody(o)

----------------------------------------------------------------------------
(* Request builder and response decoder.  x is what the environment does   *)
(* with this call: x.kind is "build" (the request cannot be built),        *)
(* "transport" (the network fails), "404", "500" or "ok" (with x.body).    *)

Request(method, path, opts) ==
    [method |-> method, path |-> path, opts |-> opts, body |-> Marshal(opts)]

newRequest(method, path, opts, x) ==
    [req |-> Request(method, path, opts),
     err |-> IF x.kind = "build" THEN ErrBuild ELSE ""]

\* fmt.Sprintf with a format of fixed words, "/" and %s verbs.
Sprintf(parts) == Concat(parts)

AccountOf(d) ==
    [kind |-> "Account", ID |-> d.id, Username |-> d.attrs["username"],
     Email |-> d.attrs["email"], TwoFactor |-> d.attrs["two-factor"]]

RunOf(d) ==
    [kind |-> "Run", ID |-> d.id, Message |-> d.attrs["message"],
     Status |-> d.attrs["status"],
     Workspace |-> [kind |-> "Workspace", ID |-> d.rels["workspace"]]]

SSHKeyOf(d) == [kind |-> "SSHKey", ID |-> d.id, Name |-> d.attrs["name"]]

ModuleOf(d) ==
    [kind |-> "Module", ID |-> d.id, Name |-> d.attrs["name"],
     Provider |-> d.attrs["provider"]]

ModuleVersionOf(d) ==
    [kind |-> "ModuleVersion", ID |-> d.id, Version |-> d.attrs["version"]]

TypeOf(dst) ==
    CASE dst = "Account"       -> "users"
      [] dst = "Run"           -> "runs"
      [] dst = "SSHKey"        -> "ssh-keys"
      [] dst = "Module"        -> "registry-modules"
      [] dst = "ModuleVersion" -> "registry-module-versions"

ValueOf(dst, d) ==
    CASE dst = "Account"       -> AccountOf(d)
      [] dst = "Run"           -> RunOf(d)
      [] dst = "SSHKey"        -> SSHKeyOf(d)
      [] dst = "Module"        -> ModuleOf(d)
      [] dst = "ModuleVersion" -> ModuleVersionOf(d)

IsDocOf(dst, b) == b.kind = "doc" /\ b.type = TypeOf(dst)

\* dst is "none", a resource type, or <<resource type>> for a collection.
\* A collection is decoded item by item, in the order of the response.
do(req, x, dst) ==
    LET fail(e) == [sent |-> 1, v |-> Nil, err |-> e]
        done(v) == [sent |-> 1, v |-> v, err |-> ""]
    IN CASE x.kind = "transport" -> fail(ErrTransport)
         [] x.kind = "404"       -> fail(ErrNotFound)
         [] x.kind = "500"       -> fail(ErrAPI)
         [] OTHER ->
            IF dst = "none" THEN done(Nil)
            ELSE IF dst \in Seq({"Run", "SSHKey"}) THEN
                IF x.body.kind = "list"
                   /\ \A i \in 1..Len(x.body.items) : IsDocOf(dst[1], x.body.items[i])
                THEN done([kind |-> "list",
                           items |-> [i \in 1..Len(x.body.items) |->
                                          ValueOf(dst[1], x.body.items[i])]])
                ELSE fail(ErrDecode)
            ELSE IF IsDocOf(dst, x.body) THEN done(ValueOf(dst, x.body))
            ELSE fail(ErrDecode)

\* What an operation returns, with the requests it built and sent.
Ret(built, sent, result, err) ==
    [built |-> built, sent |-> sent, result |-> result, err |-> err]

----------------------------------------------------------------------------
(* Accounts *)

\* Read the details of the currently authenticated user.
AccountsRead(x) ==
    LET nr == newRequest("GET", <<"account", "/", "details">>, NoOptions, x)
    IN IF nr.err # "" THEN Ret(<<nr.req>>, 0, Nil, nr.err)
       ELSE LET a == do(nr.req, x, "Account")
            IN IF a.err # "" THEN Ret(<<nr.req>>, a.sent, Nil, a.err)
               ELSE Ret(<<nr.req>>, a.sent, a.v, "")

\* Accounts.Update with the caller's ID left in the options.
AccountsUpdate_KeepID(options, x) ==
    LET nr == newRequest("PATCH", <<"account", "/", "update">>, options, x)
    IN IF nr.err # "" THEN Ret(<<nr.req>>, 0, Nil, nr.err)
       ELSE LET a == do(nr.req, x, "Account")
            IN IF a.err # "" THEN Ret(<<nr.req>>, a.sent, Nil, a.err)
               ELSE Ret(<<nr.req>>, a.sent, a.v, "")

\* Update attributes of the currently authenticated user.
AccountsUpdate(options, x) ==
    LET o  == [options EXCEPT !.ID = <<>>]
        nr == newRequest("PATCH", <<"account", "/", "update">>, o, x)
    IN IF nr.err # "" THEN Ret(<<nr.req>>, 0, Nil, nr.err)
       ELSE LET a == do(nr.req, x, "Account")
            IN IF a.err # "" THEN Ret(<<nr.req>>, a.sent, Nil, a.err)
               ELSE Ret(<<nr.req>>, a.sent, a.v, "")

TwoFactorEnableOptionsValid(o) ==
    IF o.Delivery = NilStr THEN "Delivery is required" ELSE ""

\* EnableTwoFactor enables two factor authentication.
AccountsEnableTwoFactor(options, x) ==
    IF TwoFactorEnableOptionsValid(options) # ""
    THEN Ret(<<>>, 0, Nil, TwoFactorEnableOptionsValid(options))
    ELSE LET o  == [options EXCEPT !.ID = <<>>]
             nr == newRequest("POST",
                       <<"account", "/", "actions", "/", "two-factor-enable">>, o, x)
         IN IF nr.err # "" THEN Ret(<<nr.req>>, 0, Nil, nr.err)
            ELSE LET a == do(nr.req, x, "Account")
                 IN IF a.err # "" THEN Ret(<<nr.req>>, a.sent, Nil, a.err)
                    ELSE Ret(<<nr.req>>, a.sent, a.v, "")

\* DisableTwoFactor disables two factor authentication.
AccountsDisableTwoFactor(x) ==
    LET nr == newRequest("POST",
                  <<"account", "/", "actions", "/", "two-factor-disable">>, NoOptions, x)
    IN IF nr.err # "" THEN Ret(<<nr.req>>, 0, Nil, nr.err)
       ELSE LET a == do(nr.req, x, "Account")
            IN IF a.err # "" THEN Ret(<<nr.req>>, a.sent, Nil, a.err)
               ELSE Ret(<<nr.req>>, a.sent, a.v, "")

TwoFactorVerifyOptionsValid(o) ==
    IF ~validString(o.Code) THEN "Code is required" ELSE ""

\* VerifyTwoFactor verifies two factor authentication.
AccountsVerifyTwoFactor(options, x) ==
    IF TwoFactorVerifyOptionsValid(options) # ""
    THEN Ret(<<>>, 0, Nil, TwoFactorVerifyOptionsValid(options))
    ELSE LET o  == [options EXCEPT !.ID = <<>>]
             nr == newRequest("POST",
                       <<"account", "/", "actions", "/", "two-factor-verify">>, o, x)
         IN IF nr.err # "" THEN Ret(<<nr.req>>, 0, Nil, nr.err)
            ELSE LET a == do(nr.req, x, "Account")
                 IN IF a.err # "" THEN Ret(<<nr.req>>, a.sent, Nil, a.err)
                    ELSE Ret(<<nr.req>>, a.sent, a.v, "")

\* ResendVerificationCode that tries once more when the request fails.
AccountsResendVerificationCode_Retry(x) ==
    LET nr == newRequest("POST",
                  <<"account", "/", "actions", "/", "two-factor-resend-verification-code">>,
                  NoOptions, x)
    IN IF nr.err # "" THEN Ret(<<nr.req>>, 0, Nil, nr.err)
       ELSE LET a == do(nr.req, x, "none")
            IN IF a.err = "" THEN Ret(<<nr.req>>, a.sent, Nil, a.err)
               ELSE LET b == do(nr.req, x, "none")
                    IN Ret(<<nr.req>>, a.sent + b.sent, Nil, b.err)

\* ResendVerificationCode resends the two factor verification code.
AccountsResendVerificationCode(x) ==
    LET nr == newRequest("POST",
                  <<"account", "/", "actions", "/", "two-factor-resend-verification-code">>,
                  NoOptions, x)
    IN IF nr.err # "" THEN Ret(<<nr.req>>, 0, Nil, nr.err)
       ELSE LET a == do(nr.req, x, "none")
            IN Ret(<<nr.req>>, a.sent, Nil, a.err)

----------------------------------------------------------------------------
(* Runs *)

RunPending == "pending"

RunApplied == "applied"

\* All available run statuses.
RunStatuses ==
    {RunApplied, "applying", "canceled", "confirmed", "discarded", "errored",
     RunPending, "planned", "planning", "policy_checked", "policy_checking",
     "policy_override"}

\* The loop of Runs.List putting each item in front of the ones before it.
RECURSIVE RunsListAppend_Prepend(_, _)
RunsListAppend_Prepend(rs, result) ==
    IF result = <<>> THEN rs
    ELSE RunsListAppend_Prepend(<<Head(result)>> \o rs, Tail(result))

\* The loop of Runs.List over the decoded collection: append each item.
RECURSIVE RunsListAppend(_, _)
RunsListAppend(rs, result) ==
    IF result = <<>> THEN rs
    ELSE RunsListAppend(Append(rs, Head(result)), Tail(result))

\* List runs of the given workspace.
RunsList(workspaceID, options, x) ==
    IF ~validStringID(workspaceID)
    THEN Ret(<<>>, 0, Nil, "Invalid value for workspace ID")
    ELSE LET u  == Sprintf(<<<<"workspaces", "/">>, QueryEscape(workspaceID),
                            <<"/", "runs">>>>)
             nr == newRequest("GET", u, options, x)
         IN IF nr.err # "" THEN Ret(<<nr.req>>, 0, Nil, nr.err)
            ELSE LET r == do(nr.req, x, <<"Run">>)
                 IN IF r.err # "" THEN Ret(<<nr.req>>, r.sent, Nil, r.err)
                    ELSE Ret(<<nr.req>>, r.sent,
                             [kind |-> "list", items |-> RunsListAppend(<<>>, r.v.items)],
                             "")

\* RunCreateOptions.valid without its check.
RunCreateOptionsValid_NoCheck(o) == ""

RunCreateOptionsValid(o) ==
    IF o.Workspace.kind = "nil" THEN "Workspace is required" ELSE ""

\* Create is used to create a new run.
RunsCreate(options, x) ==
    IF RunCreateOptionsValid(options) # ""
    THEN Ret(<<>>, 0, Nil, RunCreateOptionsValid(options))
    ELSE LET o  == [options EXCEPT !.ID = <<>>]
             nr == newRequest("POST", <<"runs">>, o, x)
         IN IF nr.err # "" THEN Ret(<<nr.req>>, 0, Nil, nr.err)
            ELSE LET r == do(nr.req, x, "Run")
                 IN IF r.err # "" THEN Ret(<<nr.req>>, r.sent, Nil, r.err)
                    ELSE Ret(<<nr.req>>, r.sent, r.v, "")

\* Read a single run by its ID.
RunsRead(runID, x) ==
    IF ~validStringID(runID) THEN Ret(<<>>, 0, Nil, "Invalid value for run ID")
    ELSE LET u  == Sprintf(<<<<"runs", "/">>, QueryEscape(runID)>>)
             nr == newRequest("GET", u, NoOptions, x)
         IN IF nr.err # "" THEN Ret(<<nr.req>>, 0, Nil, nr.err)
            ELSE LET r == do(nr.req, x, "Run")
                 IN IF r.err # "" THEN Ret(<<nr.req>>, r.sent, Nil, r.err)
                    ELSE Ret(<<nr.req>>, r.sent, r.v, "")

\* Apply a specific run by its ID.
RunsApply(runID, options, x) ==
    IF ~validStringID(runID) THEN Ret(<<>>, 0, Nil, "Invalid value for run ID")
    ELSE LET u  == Sprintf(<<<<"runs", "/">>, QueryEscape(runID),
                            <<"/", "actions", "/", "apply">>>>)
             nr == newRequest("POST", u, options, x)
         IN IF nr.err # "" THEN Ret(<<nr.req>>, 0, Nil, nr.err)
            ELSE LET r == do(nr.req, x, "none")
                 IN Ret(<<nr.req>>, r.sent, Nil, r.err)

\* Cancel that asks for an explanation before it sends anything.
RunsCancel_RequireComment(runID, options, x) ==
    IF ~validStringID(runID) THEN Ret(<<>>, 0, Nil, "Invalid value for run ID")
    ELSE IF options.Comment = NilStr THEN Ret(<<>>, 0, Nil, "Comment is required")
    ELSE LET u  == Sprintf(<<<<"runs", "/">>, QueryEscape(runID),
                            <<"/", "actions", "/", "cancel">>>>)
             nr == newRequest("POST", u, options, x)
         IN IF nr.err # "" THEN Ret(<<nr.req>>, 0, Nil, nr.err)
            ELSE LET r == do(nr.req, x, "none")
                 IN Ret(<<nr.req>>, r.sent, Nil, r.err)

\* Cancel a specific run by its ID.
RunsCancel(runID, options, x) ==
    IF ~validStringID(runID) THEN Ret(<<>>, 0, Nil, "Invalid value for run ID")
    ELSE LET u  == Sprintf(<<<<"runs", "/">>, QueryEscape(runID),
                            <<"/", "actions", "/", "cancel">>>>)
             nr == newRequest("POST", u, options, x)
         IN IF nr.err # "" THEN Ret(<<nr.req>>, 0, Nil, nr.err)
            ELSE LET r == do(nr.req, x, "none")
                 IN Ret(<<nr.req>>, r.sent, Nil, r.err)

\* Discard a specific run by its ID.
RunsDiscard(runID, options, x) ==
    IF ~validStringID(runID) THEN Ret(<<>>, 0, Nil, "Invalid value for run ID")
    ELSE LET u  == Sprintf(<<<<"runs", "/">>, QueryEscape(runID),
                            <<"/", "actions", "/", "discard">>>>)
             nr == newRequest("POST", u, options, x)
         IN IF nr.err # "" THEN Ret(<<nr.req>>, 0, Nil, nr.err)
            ELSE LET r == do(nr.req, x, "none")
                 IN Ret(<<nr.req>>, r.sent, Nil, r.err)

----------------------------------------------------------------------------
(* Registry *)

\* Publish is used to publish a new module to the TFE private registry.
RegistryPublish(options, x) ==
    LET nr == newRequest("POST", <<"registry-modules">>, options, x)
    IN IF nr.err # "" THEN Ret(<<nr.req>>, 0, Nil, nr.err)
       ELSE LET m == do(nr.req, x, "Module")
            IN IF m.err # "" THEN Ret(<<nr.req>>, m.sent, Nil, m.err)
               ELSE Ret(<<nr.req>>, m.sent, m.v, "")

\* CreateModule that drops the error of a failed call and returns no module.
RegistryCreateModule_Swallow(organizationName, options, x) ==
    LET path == Sprintf(<<<<"organizations", "/">>, organizationName,
                          <<"/", "registry-modules">>>>)
        nr   == newRequest("POST", path, options, x)
    IN IF nr.err # "" THEN Ret(<<nr.req>>, 0, Nil, nr.err)
       ELSE LET m == do(nr.req, x, "Module")
            IN IF m.err # "" THEN Ret(<<nr.req>>, m.sent, Nil, "")
               ELSE Ret(<<nr.req>>, m.sent, m.v, "")

RegistryCreateModule(organizationName, options, x) ==
    LET path == Sprintf(<<<<"organizations", "/">>, organizationName,
                          <<"/", "registry-modules">>>>)
        nr   == newRequest("POST", path, options, x)
    IN IF nr.err # "" THEN Ret(<<nr.req>>, 0, Nil, nr.err)
       ELSE LET m == do(nr.req, x, "Module")
            IN IF m.err # "" THEN Ret(<<nr.req>>, m.sent, Nil, m.err)
               ELSE Ret(<<nr.req>>, m.sent, m.v, "")

RegistryCreateModuleVersion(organizationName, moduleName, providerName, options, x) ==
    LET path == Sprintf(<<<<"registry-modules", "/">>, organizationName, <<"/">>,
                          moduleName, <<"/">>, providerName, <<"/", "versions">>>>)
        nr   == newRequest("POST", path, options, x)
    IN IF nr.err # "" THEN Ret(<<nr.req>>, 0, Nil, nr.err)
       ELSE LET m == do(nr.req, x, "ModuleVersion")
            IN IF m.err # "" THEN Ret(<<nr.req>>, m.sent, Nil, m.err)
               ELSE Ret(<<nr.req>>, m.sent, m.v, "")

\* DeleteModule is used to delete the entire module.
RegistryDeleteModule(organizationName, moduleName, x) ==
    LET path == Sprintf(<<<<"registry-modules", "/", "actions", "/", "delete", "/">>,
                          organizationName, <<"/">>, moduleName>>)
        nr   == newRequest("POST", path, NoOptions, x)
    IN IF nr.err # "" THEN Ret(<<nr.req>>, 0, Nil, nr.err)
       ELSE LET d == do(nr.req, x, "none")
            IN IF d.err # "" THEN Ret(<<nr.req>>, d.sent, Nil, d.err)
               ELSE Ret(<<nr.req>>, d.sent, Nil, "")

\* DeleteModuleVersion is used to delete the specific module version.
RegistryDeleteModuleVersion(organizationName, moduleName, provider, version, x) ==
    LET path == Sprintf(<<<<"registry-modules", "/", "actions", "/", "delete", "/">>,
                          organizationName, <<"/">>, moduleName, <<"/">>, provider,
                          <<"/">>, version>>)
        nr   == newRequest("POST", path, NoOptions, x)
    IN IF nr.err # "" THEN Ret(<<nr.req>>, 0, Nil, nr.err)
       ELSE LET d == do(nr.req, x, "none")
            IN IF d.err # "" THEN Ret(<<nr.req>>, d.sent, Nil, d.err)
               ELSE Ret(<<nr.req>>, d.sent, Nil, "")

\* DeleteModuleProvider is used to delete the specific module provider.
RegistryDeleteModuleProvider(organizationName, moduleName, provider, x) ==
    LET path == Sprintf(<<<<"registry-modules", "/", "actions", "/", "delete", "/">>,
                          organizationName, <<"/">>, moduleName, <<"/">>, provider>>)
        nr   == newRequest("POST", path, NoOptions, x)
    IN IF nr.err # "" THEN Ret(<<nr.req>>, 0, Nil, nr.err)
       ELSE LET d == do(nr.req, x, "none")
            IN IF d.err # "" THEN Ret(<<nr.req>>, d.sent, Nil, d.err)
               ELSE Ret(<<nr.req>>, d.sent, Nil, "")

----------------------------------------------------------------------------
(* SSHKeys *)

\* Name and Value are both required; first is the one checked first.
SSHKeyCreateOptionsValid(o, first) ==
    LET name  == IF ~validString(o.Name) THEN "Name is required" ELSE ""
        value == IF ~validString(o.Value) THEN "Value is required" ELSE ""
    IN IF first = "Name" THEN (IF name # "" THEN name ELSE value)
       ELSE (IF value # "" THEN value ELSE name)

\* List the SSH keys of the given organization.
SSHKeysList(organization, options, x) ==
    IF ~validStringID(organization)
    THEN Ret(<<>>, 0, Nil, "Invalid value for organization")
    ELSE LET u  == Sprintf(<<<<"organizations", "/">>, QueryEscape(organization),
                            <<"/", "ssh-keys">>>>)
             nr == newRequest("GET", u, options, x)
         IN IF nr.err # "" THEN Ret(<<nr.req>>, 0, Nil, nr.err)
            ELSE LET r == do(nr.req, x, <<"SSHKey">>)
                 IN IF r.err # "" THEN Ret(<<nr.req>>, r.sent, Nil, r.err)
                    ELSE Ret(<<nr.req>>, r.sent, r.v, "")

\* Create that checks its options before the organization.
SSHKeysCreate_OptionsFirst(organization, options, first, x) ==
    IF SSHKeyCreateOptionsValid(options, first) # ""
    THEN Ret(<<>>, 0, Nil, SSHKeyCreateOptionsValid(options, first))
    ELSE IF ~validStringID(organization)
    THEN Ret(<<>>, 0, Nil, "Invalid value for organization")
    ELSE LET u  == Sprintf(<<<<"organizations", "/">>, QueryEscape(organization),
                            <<"/", "ssh-keys">>>>)
             nr == newRequest("POST", u, options, x)
         IN IF nr.err # "" THEN Ret(<<nr.req>>, 0, Nil, nr.err)
            ELSE LET k == do(nr.req, x, "SSHKey")
                 IN IF k.err # "" THEN Ret(<<nr.req>>, k.sent, Nil, k.err)
                    ELSE Ret(<<nr.req>>, k.sent, k.v, "")

\* Create an SSH key in the given organization.
SSHKeysCreate(organization, options, first, x) ==
    IF ~validStringID(organization)
    THEN Ret(<<>>, 0, Nil, "Invalid value for organization")
    ELSE IF SSHKeyCreateOptionsValid(options, first) # ""
    THEN Ret(<<>>, 0, Nil, SSHKeyCreateOptionsValid(options, first))
    ELSE LET u  == Sprintf(<<<<"organizations", "/">>, QueryEscape(organization),
                            <<"/", "ssh-keys">>>>)
             nr == newRequest("POST", u, options, x)
         IN IF nr.err # "" THEN Ret(<<nr.req>>, 0, Nil, nr.err)
            ELSE LET k == do(nr.req, x, "SSHKey")
                 IN IF k.err # "" THEN Ret(<<nr.req>>, k.sent, Nil, k.err)
                    ELSE Ret(<<nr.req>>, k.sent, k.v, "")

\* SSHKeys.Read returning the empty destination instead of the decoded key.
SSHKeysRead_Empty(sshKeyID, x) ==
    IF ~validStringID(sshKeyID) THEN Ret(<<>>, 0, Nil, "Invalid value for SSH key ID")
    ELSE LET u  == Sprintf(<<<<"ssh-keys", "/">>, QueryEscape(sshKeyID)>>)
             nr == newRequest("GET", u, NoOptions, x)
         IN IF nr.err # "" THEN Ret(<<nr.req>>, 0, Nil, nr.err)
            ELSE LET k == do(nr.req, x, "SSHKey")
                 IN IF k.err # "" THEN Ret(<<nr.req>>, k.sent, Nil, k.err)
                    ELSE Ret(<<nr.req>>, k.sent,
                             [kind |-> "SSHKey", ID |-> <<>>, Name |-> ""], "")

\* Read an SSH key by its ID.
SSHKeysRead(sshKeyID, x) ==
    IF ~validStringID(sshKeyID) THEN Ret(<<>>, 0, Nil, "Invalid value for SSH key ID")
    ELSE LET u  == Sprintf(<<<<"ssh-keys", "/">>, QueryEscape(sshKeyID)>>)
             nr == newRequest("GET", u, NoOptions, x)
         IN IF nr.err # "" THEN Ret(<<nr.req>>, 0, Nil, nr.err)
            ELSE LET k == do(nr.req, x, "SSHKey")
                 IN IF k.err # "" THEN Ret(<<nr.req>>, k.sent, Nil, k.err)
                    ELSE Ret(<<nr.req>>, k.sent, k.v, "")

\* Update an SSH key by its ID.
SSHKeysUpdate(sshKeyID, options, x) ==
    IF ~validStringID(sshKeyID) THEN Ret(<<>>, 0, Nil, "Invalid value for SSH key ID")
    ELSE LET u  == Sprintf(<<<<"ssh-keys", "/">>, QueryEscape(sshKeyID)>>)
             nr == newRequest("PATCH", u, options, x)
         IN IF nr.err # "" THEN Ret(<<nr.req>>, 0, Nil, nr.err)
            ELSE LET k == do(nr.req, x, "SSHKey")
                 IN IF k.err # "" THEN Ret(<<nr.req>>, k.sent, Nil, k.err)
                    ELSE Ret(<<nr.req>>, k.sent, k.v, "")

\* Delete an SSH key by its ID.
SSHKeysDelete(sshKeyID, x) ==
    IF ~validStringID(sshKeyID) THEN Ret(<<>>, 0, Nil, "Invalid value for SSH key ID")
    ELSE LET u  == Sprintf(<<<<"ssh-keys", "/">>, QueryEscape(sshKeyID)>>)
             nr == newRequest("DELETE", u, NoOptions, x)
         IN IF nr.err # "" THEN Ret(<<nr.req>>, 0, Nil, nr.err)
            ELSE LET d == do(nr.req, x, "none")
                 IN Ret(<<nr.req>>, d.sent, Nil, d.err)

----------------------------------------------------------------------------
(* The server behind the "fixture" transport: a stable backing store.      *)

\* The workspaces the fixture has.
Parents == { <<"a">>, <<"a", "/", "b">> }

\* The one organization the fixture has; any other is unknown to the server.
Organizations == { <<"a", "/", "b">> }

AccountID == <<"user-1">>

AccountDoc(a) ==
    Doc("users", AccountID,
        [n \in {"username", "email", "two-factor"} |->
            CASE n = "username" -> a.username
              [] n = "email"    -> a.email
              [] OTHER          -> a.twoFactor],
        NoRels)

RunDoc(r) ==
    Doc("runs", r.id,
        [n \in {"message", "status"} |-> IF n = "message" THEN r.message ELSE r.status],
        [n \in {"workspace"} |-> r.ws])

KeyDoc(k) == Doc("ssh-keys", k.id, [n \in {"name"} |-> k.name], NoRels)

ListBody(docs) == [kind |-> "list", items |-> docs]

Resp(kind, body, srv) == [kind |-> kind, body |-> body, server |-> srv]

NoTwoFactor == [Delivery |-> "", Enabled |-> FALSE, Verified |-> FALSE]

\* Only the attributes present in the document change.
Patched(doc, name, old) ==
    IF name \notin DOMAIN doc.attrs THEN old
    ELSE IF doc.attrs[name] = NilStr THEN "" ELSE doc.attrs[name]

Index(seq, id) ==
    IF \E i \in 1..Len(seq) : seq[i].id = id
    THEN CHOOSE i \in 1..Len(seq) : seq[i].id = id ELSE 0

Remove(seq, i) == SubSeq(seq, 1, i-1) \o SubSeq(seq, i+1, Len(seq))

RECURSIVE Filter(_, _)
Filter(seq, parent) ==
    IF seq = <<>> THEN <<>>
    ELSE IF Head(seq).ws = parent THEN <<Head(seq)>> \o Filter(Tail(seq), parent)
    ELSE Filter(Tail(seq), parent)

\* Page number of the given size; no size means everything on one page.
Page(seq, number, size) ==
    LET n == IF number = 0 THEN 1 ELSE number
        s == IF size = 0 THEN Len(seq) ELSE size
        lo == (n - 1) * s + 1
        hi == IF n * s < Len(seq) THEN n * s ELSE Len(seq)
    IN SubSeq(seq, lo, hi)

ServeAccount(req, segs, srv) ==
    LET a == srv.account
        reply(b) == Resp("ok", AccountDoc(b), [srv EXCEPT !.account = b])
        verb == IF Len(segs) = 3 THEN segs[3] ELSE <<>>
    IN IF Len(segs) = 2 /\ segs[2] = <<"details">> /\ req.method = "GET" THEN reply(a)
       ELSE IF Len(segs) = 2 /\ segs[2] = <<"update">> /\ req.method = "PATCH" THEN
            reply([a EXCEPT !.username = Patched(req.body, "username", a.username),
                            !.email = Patched(req.body, "email", a.email)])
       ELSE IF Len(segs) # 3 \/ segs[2] # <<"actions">> \/ req.method # "POST"
            THEN Resp("404", Nil, srv)
       ELSE IF verb = <<"two-factor-enable">> THEN
            IF req.body.attrs["delivery"] \in {"app", "sms"}
            THEN reply([a EXCEPT !.twoFactor = [Delivery |-> req.body.attrs["delivery"],
                                                Enabled |-> TRUE, Verified |-> FALSE]])
            ELSE Resp("500", Nil, srv)
       ELSE IF verb = <<"two-factor-disable">> THEN reply([a EXCEPT !.twoFactor = NoTwoFactor])
       ELSE IF verb = <<"two-factor-verify">> THEN
            IF a.twoFactor.Enabled
            THEN reply([a EXCEPT !.twoFactor.Verified = TRUE])
            ELSE Resp("500", Nil, srv)
       ELSE IF verb = <<"two-factor-resend-verification-code">> THEN
            IF a.twoFactor.Enabled /\ ~a.twoFactor.Verified
            THEN Resp("ok", Nil, srv) ELSE Resp("500", Nil, srv)
       ELSE Resp("404", Nil, srv)

\* The newest run comes first in the server's order.
ServeRuns(req, segs, srv) ==
    LET id == IF Len(segs) >= 2 THEN QueryUnescape(segs[2]) ELSE <<>>
        i  == Index(srv.runs, id)
    IN IF Len(segs) = 1 /\ req.method = "POST" THEN
            IF req.body.rels["workspace"] \notin Parents THEN Resp("404", Nil, srv)
            ELSE IF srv.nruns >= MaxRuns THEN Resp("500", Nil, srv)
            ELSE LET r == [id |-> ServerID("run-", srv.nruns + 1),
                           ws |-> req.body.rels["workspace"],
                           message |-> Patched(req.body, "message", ""),
                           status |-> RunPending]
                 IN Resp("ok", RunDoc(r),
                         [srv EXCEPT !.runs = <<r>> \o @, !.nruns = @ + 1])
       ELSE IF i = 0 THEN Resp("404", Nil, srv)
       ELSE IF Len(segs) = 2 /\ req.method = "GET" THEN Resp("ok", RunDoc(srv.runs[i]), srv)
       ELSE IF Len(segs) = 4 /\ req.method = "POST" /\ segs[3] = <<"actions">>
               /\ segs[4] \in {<<"apply">>, <<"cancel">>, <<"discard">>}
            THEN Resp("ok", Nil, srv)
       ELSE Resp("404", Nil, srv)

ServeWorkspaces(req, segs, srv) ==
    LET ws == IF Len(segs) >= 2 THEN QueryUnescape(segs[2]) ELSE <<>>
    IN IF Len(segs) = 3 /\ segs[3] = <<"runs">> /\ req.method = "GET" /\ ws \in Parents
       THEN LET page == Page(Filter(srv.runs, ws), req.body.number, req.body.size)
            IN Resp("ok", ListBody([j \in 1..Len(page) |-> RunDoc(page[j])]), srv)
       ELSE Resp("404", Nil, srv)

\* Paging of SSH keys is not supported by the server: the query is ignored.
\* The value of a key is write-only: no response carries it, so the store
\* keeps the name only.
ServeOrganizations(req, segs, srv) ==
    LET org == IF Len(segs) >= 2 THEN QueryUnescape(segs[2]) ELSE <<>>
    IN IF Len(segs) # 3 \/ segs[3] # <<"ssh-keys">> \/ org \notin Organizations
       THEN Resp("404", Nil, srv)
       ELSE IF req.method = "GET" THEN
            LET ks == Filter(srv.keys, org)
            IN Resp("ok", ListBody([j \in 1..Len(ks) |-> KeyDoc(ks[j])]), srv)
       ELSE IF req.method = "POST" THEN
            IF srv.nkeys >= MaxKeys THEN Resp("500", Nil, srv)
            ELSE LET k == [id |-> ServerID("sshkey-", srv.nkeys + 1), ws |-> org,
                           name |-> req.body.attrs["name"]]
                 IN Resp("ok", KeyDoc(k),
                         [srv EXCEPT !.keys = Append(@, k), !.nkeys = @ + 1])
       ELSE Resp("404", Nil, srv)

\* A server that answers a DELETE with success and keeps the key.
ServeSSHKeys_KeepOnDelete(req, segs, srv) ==
    LET id == IF Len(segs) >= 2 THEN QueryUnescape(segs[2]) ELSE <<>>
        i  == Index(srv.keys, id)
    IN IF Len(segs) # 2 \/ i = 0 THEN Resp("404", Nil, srv)
       ELSE IF req.method = "GET" THEN Resp("ok", KeyDoc(srv.keys[i]), srv)
       ELSE IF req.method = "PATCH" THEN
            LET k == [srv.keys[i] EXCEPT !.name = Patched(req.body, "name", @)]
            IN Resp("ok", KeyDoc(k), [srv EXCEPT !.keys[i] = k])
       ELSE IF req.method = "DELETE" THEN Resp("ok", Nil, srv)
       ELSE Resp("404", Nil, srv)

ServeSSHKeys(req, segs, srv) ==
    LET id == IF Len(segs) >= 2 THEN QueryUnescape(segs[2]) ELSE <<>>
        i  == Index(srv.keys, id)
    IN IF Len(segs) # 2 \/ i = 0 THEN Resp("404", Nil, srv)
       ELSE IF req.method = "GET" THEN Resp("ok", KeyDoc(srv.keys[i]), srv)
       ELSE IF req.method = "PATCH" THEN
            LET k == [srv.keys[i] EXCEPT !.name = Patched(req.body, "name", @)]
            IN Resp("ok", KeyDoc(k), [srv EXCEPT !.keys[i] = k])
       ELSE IF req.method = "DELETE" THEN
            Resp("ok", Nil, [srv EXCEPT !.keys = Remove(@, i)])
       ELSE Resp("404", Nil, srv)

ServerHandle(req, srv) ==
    LET segs == Split(req.path)
    IN CASE segs[1] = <<"account">>       -> ServeAccount(req, segs, srv)
         [] segs[1] = <<"runs">>          -> ServeRuns(req, segs, srv)
         [] segs[1] = <<"workspaces">>    -> ServeWorkspaces(req, segs, srv)
         [] segs[1] = <<"organizations">> -> ServeOrganizations(req, segs, srv)
         [] segs[1] = <<"ssh-keys">>      -> ServeSSHKeys(req, segs, srv)
         [] OTHER                         -> Resp("404", Nil, srv)

----------------------------------------------------------------------------
(* The "double" transport: it keeps nothing and answers a request with any *)
(* failure or with any of the bodies canned for the request's path.        *)

Garbage == Doc("garbage", <<>>, NoRels, NoRels)

CannedAccount ==
    AccountDoc([username |-> "u1", email |-> "e1", twoFactor |-> NoTwoFactor])

CannedRun(i) ==
    RunDoc([id |-> ServerID("run-", i), ws |-> <<"a">>, message |-> "",
            status |-> RunPending])

CannedKey == KeyDoc([id |-> ServerID("sshkey-", 1), name |-> "n1"])

CannedModule ==
    Doc("registry-modules", <<"mod-1">>,
        [n \in {"name", "provider"} |-> IF n = "name" THEN "n1" ELSE "aws"], NoRels)

CannedModuleVersion ==
    Doc("registry-module-versions", <<"modver-1">>, [n \in {"version"} |-> "1.0.0"],
        NoRels)

CannedBodies(req) ==
    LET w == req.path[1]
        e == req.path[Len(req.path)]
    IN CASE w = "account"    -> {Garbage, CannedAccount}
         [] w = "runs"       -> {Garbage, CannedRun(1)}
         [] w = "workspaces" -> {Garbage, ListBody(<<CannedRun(1), CannedRun(2)>>),
                                 ListBody(<<CannedRun(2), CannedRun(1)>>)}
         [] w = "ssh-keys"   -> {Garbage, CannedKey}
         [] w = "organizations" /\ e = "ssh-keys" ->
                IF req.method = "GET" THEN {Garbage, ListBody(<<CannedKey>>)}
                ELSE {Garbage, CannedKey}
         [] w = "organizations" /\ e = "registry-modules" -> {Garbage, CannedModule}
         [] w = "registry-modules" /\ Len(req.path) = 1   -> {Garbage, CannedModule}
         [] w = "registry-modules" /\ e = "versions" -> {Garbage, CannedModuleVersion}
         [] OTHER -> {Nil}

Double(req, srv) ==
    {Resp(k, Nil, srv) : k \in {"build", "transport", "404", "500"}}
        \cup {Resp("ok", b, srv) : b \in CannedBodies(req)}

----------------------------------------------------------------------------
(* The calls *)

NoResp == [kind |-> "none", body |-> Nil]

NoCall ==
    [op |-> "", ids |-> <<>>, options |-> NoOptions, built |-> <<>>, sent |-> 0,
     result |-> Nil, err |-> "", resp |-> NoResp]

Server0 ==
    [account |-> [username |-> "u1", email |-> "e1", twoFactor |-> NoTwoFactor],
     runs |-> <<>>, nruns |-> 0, keys |-> <<>>, nkeys |-> 0]

NoKeys == [id \in {} |-> Nil]

\* The outcome of a call that never reaches the environment.
Probe == Resp("ok", Nil, server)

Env(req) ==
    IF transport = "double" THEN Double(req, server) ELSE {ServerHandle(req, server)}

\* What the environment may do with the call whose first request r0 built.
Outcomes(r0) == IF r0.built = <<>> THEN {Probe} ELSE Env(r0.built[1])

\* The call op(ids, options) returned what call is after the environment did x.
Record(op, ids, options, call, x) ==
    \E r \in {call} :
        /\ last' = [op |-> op, ids |-> ids, options |-> options, built |-> r.built,
                    sent |-> r.sent, result |-> r.result, err |-> r.err,
                    resp |-> IF r.sent = 0 THEN NoResp
                             ELSE [kind |-> x.kind, body |-> x.body]]
        /\ server' = IF r.sent = 0 THEN server ELSE x.server
        /\ transport' = transport

PStr(S) == {NilStr} \cup S

AccountUpdateInputs ==
    [kind : {"AccountUpdateOptions"}, ID : CallerIDs,
     Username : PStr({"u1", "u2"}), Email : PStr({"e1", "e2"})]

TwoFactorEnableInputs ==
    [kind : {"TwoFactorEnableOptions"}, ID : CallerIDs,
     Delivery : PStr({"", "app", "sms"}), SMSNumber : PStr({"555"})]

TwoFactorVerifyInputs ==
    [kind : {"TwoFactorVerifyOptions"}, ID : CallerIDs, Code : PStr({"", "123456"})]

WorkspaceRefs ==
    {Nil} \cup {[kind |-> "Workspace", ID |-> w] : w \in {<<>>} \cup Parents}

RunCreateInputs ==
    [kind : {"RunCreateOptions"}, ID : CallerIDs, Message : PStr({"m"}),
     Workspace : WorkspaceRefs]

Pages == { <<0, 0>>, <<1, 1>>, <<2, 1>> }

ListInputs(kind) ==
    {[kind |-> kind, PageNumber |-> p[1], PageSize |-> p[2]] : p \in Pages}

RunActionInputs(kind) == [kind : {kind}, Comment : PStr({"c"})]

ModuleCreateInputs ==
    [kind : {"ModuleCreateOptions"}, Name : {"", "n1"}, Provider : {"aws"}]

ModuleCreateVersionInputs == [kind : {"ModuleCreateVersionOptions"}, Version : {"1.0.0"}]

ModulePublishInputs ==
    [kind : {"ModulePublishOptions"}, ModuleVCSOptions : PStr({"repo"})]

SSHKeyCreateInputs ==
    [kind : {"SSHKeyCreateOptions"}, Name : PStr(Names), Value : PStr(Secrets)]

SSHKeyUpdateInputs ==
    [kind : {"SSHKeyUpdateOptions"}, Name : PStr(Names), Value : PStr(Secrets)]

CallAccountsRead ==
    \E x \in Outcomes(AccountsRead(Probe)) :
        /\ Record("Accounts.Read", <<>>, NoOptions, AccountsRead(x), x)
        /\ UNCHANGED <<deleted, fresh>>

CallAccountsUpdate ==
    \E o \in AccountUpdateInputs : \E x \in Outcomes(AccountsUpdate(o, Probe)) :
        /\ Record("Accounts.Update", <<>>, o, AccountsUpdate(o, x), x)
        /\ UNCHANGED <<deleted, fresh>>

CallAccountsEnableTwoFactor ==
    \E o \in TwoFactorEnableInputs : \E x \in Outcomes(AccountsEnableTwoFactor(o, Probe)) :
        /\ Record("Accounts.EnableTwoFactor", <<>>, o, AccountsEnableTwoFactor(o, x), x)
        /\ UNCHANGED <<deleted, fresh>>

CallAccountsDisableTwoFactor ==
    \E x \in Outcomes(AccountsDisableTwoFactor(Probe)) :
        /\ Record("Accounts.DisableTwoFactor", <<>>, NoOptions,
                  AccountsDisableTwoFactor(x), x)
        /\ UNCHANGED <<deleted, fresh>>

CallAccountsVerifyTwoFactor ==
    \E o \in TwoFactorVerifyInputs : \E x \in Outcomes(AccountsVerifyTwoFactor(o, Probe)) :
        /\ Record("Accounts.VerifyTwoFactor", <<>>, o, AccountsVerifyTwoFactor(o, x), x)
        /\ UNCHANGED <<deleted, fresh>>

CallAccountsResendVerificationCode ==
    \E x \in Outcomes(AccountsResendVerificationCode(Probe)) :
        /\ Record("Accounts.ResendVerificationCode", <<>>, NoOptions,
                  AccountsResendVerificationCode(x), x)
        /\ UNCHANGED <<deleted, fresh>>

CallRunsList ==
    \E id \in Idents, o \in ListInputs("RunListOptions") :
      \E x \in Outcomes(RunsList(id, o, Probe)) :
        /\ Record("Runs.List", <<id>>, o, RunsList(id, o, x), x)
        /\ UNCHANGED <<deleted, fresh>>

CallRunsCreate ==
    \E o \in RunCreateInputs : \E x \in Outcomes(RunsCreate(o, Probe)) :
        /\ Record("Runs.Create", <<>>, o, RunsCreate(o, x), x)
        /\ UNCHANGED <<deleted, fresh>>

CallRunsRead ==
    \E id \in Idents \cup RunIDs : \E x \in Outcomes(RunsRead(id, Probe)) :
        /\ Record("Runs.Read", <<id>>, NoOptions, RunsRead(id, x), x)
        /\ UNCHANGED <<deleted, fresh>>

CallRunsApply ==
    \E id \in Idents \cup RunIDs, o \in RunActionInputs("RunApplyOptions") :
      \E x \in Outcomes(RunsApply(id, o, Probe)) :
        /\ Record("Runs.Apply", <<id>>, o, RunsApply(id, o, x), x)
        /\ UNCHANGED <<deleted, fresh>>

CallRunsCancel ==
    \E id \in Idents \cup RunIDs, o \in RunActionInputs("RunCancelOptions") :
      \E x \in Outcomes(RunsCancel(id, o, Probe)) :
        /\ Record("Runs.Cancel", <<id>>, o, RunsCancel(id, o, x), x)
        /\ UNCHANGED <<deleted, fresh>>

CallRunsDiscard ==
    \E id \in Idents \cup RunIDs, o \in RunActionInputs("RunDiscardOptions") :
      \E x \in Outcomes(RunsDiscard(id, o, Probe)) :
        /\ Record("Runs.Discard", <<id>>, o, RunsDiscard(id, o, x), x)
        /\ UNCHANGED <<deleted, fresh>>

CallRegistryPublish ==
    \E o \in ModulePublishInputs : \E x \in Outcomes(RegistryPublish(o, Probe)) :
        /\ Record("Registry.Publish", <<>>, o, RegistryPublish(o, x), x)
        /\ UNCHANGED <<deleted, fresh>>

CallRegistryCreateModule ==
    \E org \in Idents, o \in ModuleCreateInputs :
      \E x \in Outcomes(RegistryCreateModule(org, o, Probe)) :
        /\ Record("Registry.CreateModule", <<org>>, o, RegistryCreateModule(org, o, x), x)
        /\ UNCHANGED <<deleted, fresh>>

CallRegistryCreateModuleVersion ==
    \E org \in Idents, m \in Idents, p \in Providers, o \in ModuleCreateVersionInputs :
      \E x \in Outcomes(RegistryCreateModuleVersion(org, m, p, o, Probe)) :
        /\ Record("Registry.CreateModuleVersion", <<org, m, p>>, o,
                  RegistryCreateModuleVersion(org, m, p, o, x), x)
        /\ UNCHANGED <<deleted, fresh>>

CallRegistryDeleteModule ==
    \E org \in Idents, m \in Idents :
      \E x \in Outcomes(RegistryDeleteModule(org, m, Probe)) :
        /\ Record("Registry.DeleteModule", <<org, m>>, NoOptions,
                  RegistryDeleteModule(org, m, x), x)
        /\ UNCHANGED <<deleted, fresh>>

CallRegistryDeleteModuleVersion ==
    \E org \in Idents, m \in Idents, p \in Providers, v \in Versions :
      \E x \in Outcomes(RegistryDeleteModuleVersion(org, m, p, v, Probe)) :
        /\ Record("Registry.DeleteModuleVersion", <<org, m, p, v>>, NoOptions,
                  RegistryDeleteModuleVersion(org, m, p, v, x), x)
        /\ UNCHANGED <<deleted, fresh>>

CallRegistryDeleteModuleProvider ==
    \E org \in Idents, m \in Idents, p \in Providers :
      \E x \in Outcomes(RegistryDeleteModuleProvider(org, m, p, Probe)) :
        /\ Record("Registry.DeleteModuleProvider", <<org, m, p>>, NoOptions,
                  RegistryDeleteModuleProvider(org, m, p, x), x)
        /\ UNCHANGED <<deleted, fresh>>

\* The history is kept of the fixture's keys only.
Tracked(r) == transport = "fixture" /\ r.sent = 1

Without(f, id) == [i \in DOMAIN f \ {id} |-> f[i]]

CallSSHKeysList ==
    \E org \in Idents, o \in ListInputs("SSHKeyListOptions") :
      \E x \in Outcomes(SSHKeysList(org, o, Probe)) :
        /\ Record("SSHKeys.List", <<org>>, o, SSHKeysList(org, o, x), x)
        /\ UNCHANGED <<deleted, fresh>>

\* Which of the two checks comes first shows only when both fields are missing.
FirstChecks(o) ==
    IF ~validString(o.Name) /\ ~validString(o.Value) THEN {"Name", "Value"} ELSE {"Name"}

CallSSHKeysCreate ==
    \E org \in Idents, o \in SSHKeyCreateInputs : \E first \in FirstChecks(o) :
      \E x \in Outcomes(SSHKeysCreate(org, o, first, Probe)) :
        LET r == SSHKeysCreate(org, o, first, x)
        IN /\ Record("SSHKeys.Create", <<org>>, o, r, x)
           /\ fresh' = IF Tracked(r) /\ r.err = ""
                       THEN [i \in DOMAIN fresh \cup {r.result.ID} |->
                                IF i = r.result.ID
                                THEN [created |-> r.result, name |-> o.Name]
                                ELSE fresh[i]]
                       ELSE fresh
           /\ deleted' = deleted

CallSSHKeysRead ==
    \E id \in Idents \cup KeyIDs : \E x \in Outcomes(SSHKeysRead(id, Probe)) :
        /\ Record("SSHKeys.Read", <<id>>, NoOptions, SSHKeysRead(id, x), x)
        /\ UNCHANGED <<deleted, fresh>>

CallSSHKeysUpdate ==
    \E id \in Idents \cup KeyIDs, o \in SSHKeyUpdateInputs :
      \E x \in Outcomes(SSHKeysUpdate(id, o, Probe)) :
        LET r == SSHKeysUpdate(id, o, x)
        IN /\ Record("SSHKeys.Update", <<id>>, o, r, x)
           /\ fresh' = IF Tracked(r) THEN Without(fresh, id) ELSE fresh
           /\ deleted' = deleted

CallSSHKeysDelete ==
    \E id \in Idents \cup KeyIDs : \E x \in Outcomes(SSHKeysDelete(id, Probe)) :
        LET r == SSHKeysDelete(id, x)
        IN /\ Record("SSHKeys.Delete", <<id>>, NoOptions, r, x)
           /\ fresh' = IF Tracked(r) THEN Without(fresh, id) ELSE fresh
           /\ deleted' = IF Tracked(r) /\ r.err = "" THEN deleted \cup {id} ELSE deleted

----------------------------------------------------------------------------
(* Specifications *)

\* The client on a transport that may answer anything.
Init ==
    /\ transport = "double"
    /\ server = Server0
    /\ last = NoCall
    /\ deleted = {}
    /\ fresh = NoKeys

\* The client on the fixture: a reliable transport and a stable store.
InitFixture ==
    /\ transport = "fixture"
    /\ server = Server0
    /\ last = NoCall
    /\ deleted = {}
    /\ fresh = NoKeys

NextAccounts ==
    \/ CallAccountsRead
    \/ CallAccountsUpdate
    \/ CallAccountsEnableTwoFactor
    \/ CallAccountsDisableTwoFactor
    \/ CallAccountsVerifyTwoFactor
    \/ CallAccountsResendVerificationCode

NextRuns ==
    \/ CallRunsList
    \/ CallRunsCreate
    \/ CallRunsRead
    \/ CallRunsApply
    \/ CallRunsCancel
    \/ CallRunsDiscard

NextRegistry ==
    \/ CallRegistryPublish
    \/ CallRegistryCreateModule
    \/ CallRegistryCreateModuleVersion
    \/ CallRegistryDeleteModule
    \/ CallRegistryDeleteModuleVersion
    \/ CallRegistryDeleteModuleProvider

NextSSHKeys ==
    \/ CallSSHKeysList
    \/ CallSSHKeysCreate
    \/ CallSSHKeysRead
    \/ CallSSHKeysUpdate
    \/ CallSSHKeysDelete

Next == NextAccounts \/ NextRuns \/ NextRegistry \/ NextSSHKeys

Spec == Init /\ [][Next]_vars

SpecAccounts == InitFixture /\ [][NextAccounts]_vars

SpecRuns == InitFixture /\ [][NextRuns]_vars

SpecSSHKeys == InitFixture /\ [][NextSSHKeys]_vars

\* The fixture with one run, which the server has brought to any status.
InitRunStatus ==
    /\ transport = "fixture"
    /\ \E st \in RunStatuses :
          server = [Server0 EXCEPT
                       !.runs = <<[id |-> ServerID("run-", 1), ws |-> <<"a">>,
                                   message |-> "", status |-> st]>>,
                       !.nruns = 1]
    /\ last = NoCall
    /\ deleted = {}
    /\ fresh = NoKeys

NextRunActions ==
    \/ CallRunsRead
    \/ CallRunsApply
    \/ CallRunsCancel
    \/ CallRunsDiscard

SpecRunStatus == InitRunStatus /\ [][NextRunActions]_vars

TypeOK ==
    /\ transport \in {"double", "fixture"}
    /\ last.sent \in 0..1
    /\ Len(last.built) \in 0..1

----------------------------------------------------------------------------
(* Properties *)

Rejected(e) ==
    /\ last.result.kind = "nil"
    /\ last.err = e
    /\ last.built = <<>>
    /\ last.sent = 0

IdentifierOps ==
    {"Runs.List", "Runs.Read", "Runs.Apply", "Runs.Cancel", "Runs.Discard",
     "SSHKeys.List", "SSHKeys.Create", "SSHKeys.Read", "SSHKeys.Update", "SSHKeys.Delete",
     "Registry.CreateModule", "Registry.CreateModuleVersion", "Registry.DeleteModule",
     "Registry.DeleteModuleVersion", "Registry.DeleteModuleProvider"}

InvalidValueErrors ==
    {"Invalid value for workspace ID", "Invalid value for run ID",
     "Invalid value for organization", "Invalid value for SSH key ID"}

\* C1: an operation called with an empty or whitespace-only identifier
\* returns an "Invalid value for <field>" error and sends no HTTP request.
C1_InvalidIdentifierRejected ==
    (last.op \in IdentifierOps /\ \E i \in 1..Len(last.ids) : ~validStringID(last.ids[i]))
        => (last.err \in InvalidValueErrors /\ last.sent = 0)

\* C2 as stated: a Create-style operation called with a required field nil
\* returns nil and "<Field> is required" for that very field, and no request
\* is built or sent.
C2_OmittedFieldNamed ==
    /\ (last.op = "Runs.Create" /\ last.options.Workspace.kind = "nil")
            => Rejected("Workspace is required")
    /\ (last.op = "Accounts.EnableTwoFactor" /\ last.options.Delivery = NilStr)
            => Rejected("Delivery is required")
    /\ (last.op = "Accounts.VerifyTwoFactor" /\ last.options.Code = NilStr)
            => Rejected("Code is required")
    /\ (last.op = "SSHKeys.Create" /\ last.options.Name = NilStr)
            => Rejected("Name is required")
    /\ (last.op = "SSHKeys.Create" /\ last.options.Value = NilStr)
            => Rejected("Value is required")

\* C2, amended: a Create-style operation called with a required field nil
\* returns nil and builds and sends no request.  The error is "<Field> is
\* required" for that field in Runs.Create, EnableTwoFactor and
\* VerifyTwoFactor, and in SSHKeys.Create when the organization is valid and
\* the other required field is given; with both Name and Value nil it names
\* one of the two, and with an invalid organization it is "Invalid value for
\* organization".
C2_OmittedFieldRejected ==
    /\ (last.op = "Runs.Create" /\ last.options.Workspace.kind = "nil")
            => Rejected("Workspace is required")
    /\ (last.op = "Accounts.EnableTwoFactor" /\ last.options.Delivery = NilStr)
            => Rejected("Delivery is required")
    /\ (last.op = "Accounts.VerifyTwoFactor" /\ last.options.Code = NilStr)
            => Rejected("Code is required")
    /\ (last.op = "SSHKeys.Create"
            /\ (last.options.Name = NilStr \/ last.options.Value = NilStr))
            => IF ~validStringID(last.ids[1])
               THEN Rejected("Invalid value for organization")
               ELSE IF validString(last.options.Value) THEN Rejected("Name is required")
               ELSE IF validString(last.options.Name) THEN Rejected("Value is required")
               ELSE Rejected("Name is required") \/ Rejected("Value is required")

C2_Witness ==
    /\ last.op = "SSHKeys.Create"
    /\ validStringID(last.ids[1])
    /\ last.options.Name = NilStr
    /\ last.options.Value # NilStr
    /\ Rejected("Name is required")

InternalIDOps ==
    {"Accounts.Update", "Accounts.EnableTwoFactor", "Accounts.VerifyTwoFactor",
     "Runs.Create"}

\* C3: whatever ID the caller puts in the options of Accounts.Update,
\* EnableTwoFactor, VerifyTwoFactor or Runs.Create, the options handed to
\* the request builder have an empty ID, and so has the document sent.
C3_InternalIDCleared ==
    last.op \in InternalIDOps =>
        \A i \in 1..Len(last.built) :
            last.built[i].opts.ID = <<>> /\ last.built[i].body.id = <<>>

C3_Witness ==
    /\ last.op = "Accounts.Update"
    /\ last.options.ID = <<"spoofed">>
    /\ Len(last.built) = 1
    /\ last.sent = 1

\* C4: a required field that points to an empty value is rejected like a nil
\* one: "<Name> is required", and no request.
C4_EmptyValueRejected ==
    /\ (last.op = "Accounts.EnableTwoFactor" /\ last.options.Delivery = "")
            => Rejected("Delivery is required")
    /\ (last.op = "Accounts.VerifyTwoFactor" /\ last.options.Code = "")
            => Rejected("Code is required")
    /\ (last.op = "Runs.Create" /\ last.options.Workspace.kind # "nil"
            /\ last.options.Workspace.ID = <<>>)
            => Rejected("Workspace is required")

PathOps ==
    {"Runs.List", "Runs.Read", "Runs.Apply", "Runs.Cancel", "Runs.Discard",
     "Registry.CreateModule", "Registry.CreateModuleVersion", "Registry.DeleteModule",
     "Registry.DeleteModuleVersion", "Registry.DeleteModuleProvider"}

\* The number of segments of the path of an operation.
PathSegments(op) ==
    CASE op = "Runs.List"                    -> 3
      [] op = "Runs.Read"                    -> 2
      [] op \in {"Runs.Apply", "Runs.Cancel", "Runs.Discard"} -> 4
      [] op = "Registry.CreateModule"        -> 3
      [] op = "Registry.CreateModuleVersion" -> 5
      [] op = "Registry.DeleteModule"        -> 5
      [] op = "Registry.DeleteModuleVersion" -> 7
      [] op = "Registry.DeleteModuleProvider" -> 6

\* C5: in the path of every request, each identifier of the caller is one
\* segment, percent-encoded, so that the path has the number of segments of
\* the operation whatever the identifiers contain.
C5_IdentifiersEscaped ==
    last.op \in PathOps =>
        \A i \in 1..Len(last.built) :
            LET segs == Split(last.built[i].path)
            IN /\ Len(segs) = PathSegments(last.op)
               /\ \A j \in 1..Len(last.ids) :
                    \E k \in 1..Len(segs) : segs[k] = QueryEscape(last.ids[j])

\* C6: a call sends at most one HTTP request, whether it succeeds or fails.
C6_AtMostOneRequest == last.sent <= 1 /\ Len(last.built) <= 1

C6_Witness ==
    /\ last.op = "Accounts.ResendVerificationCode"
    /\ last.err = ErrTransport
    /\ last.sent = 1

\* C7: once a Delete of an SSH key has succeeded, every Read and every
\* Delete of that ID returns "Error: not found".
C7_DeletedStaysNotFound ==
    [][\A id \in deleted :
          (last'.op \in {"SSHKeys.Read", "SSHKeys.Delete"} /\ last'.ids = <<id>>)
              => (last'.err = ErrNotFound /\ last'.result.kind = "nil")]_vars

C7_Witness ==
    \E id \in deleted :
        /\ last.op = "SSHKeys.Delete"
        /\ last.ids = <<id>>
        /\ last.err = ErrNotFound

\* C8: a successful Create returns a key with a non-empty ID and the name
\* given, and a Read of that ID, with no Update or Delete of it in between,
\* returns a key equal to the one Create returned.
C8_CreateReadRoundTrip ==
    /\ (last.op = "SSHKeys.Create" /\ last.err = "")
            => (last.result.ID # <<>> /\ last.result.Name = last.options.Name)
    /\ (last.op = "SSHKeys.Read" /\ last.ids[1] \in DOMAIN fresh)
            => /\ last.err = ""
               /\ last.result = fresh[last.ids[1]].created
               /\ last.result.ID # <<>>
               /\ last.result.Name = fresh[last.ids[1]].name

C8_Witness ==
    /\ last.op = "SSHKeys.Read"
    /\ last.ids[1] \in DOMAIN fresh
    /\ last.err = ""
    /\ last.result.Name = "n2"

\* C9: an Update changes the fields set in its options and no other: the
\* account it returns has the same ID, the value given for each field set
\* and the value before the Update for each field not set.
C9_UpdateFrame ==
    [][(last'.op = "Accounts.Update" /\ last'.err = "") =>
          LET o == last'.options
              a == AccountOf(AccountDoc(server.account))
              r == last'.result
          IN /\ r.ID = a.ID
             /\ r.Username = (IF o.Username = NilStr THEN a.Username ELSE o.Username)
             /\ r.Email = (IF o.Email = NilStr THEN a.Email ELSE o.Email)
             /\ r.TwoFactor = a.TwoFactor]_vars

C9_Witness ==
    /\ last.op = "Accounts.Update"
    /\ last.err = ""
    /\ last.options.Username = NilStr
    /\ last.options.Email = "e2"
    /\ last.result.Username = "u2"
    /\ last.result.Email = "e2"

\* The result of a List is the response, item by item, in its order.
InResponseOrder ==
    /\ Len(last.result.items) = Len(last.resp.body.items)
    /\ \A i \in 1..Len(last.result.items) :
          last.result.items[i] = RunOf(last.resp.body.items[i])

\* The result of a List has every run of the workspace.
HasEveryRun ==
    \A i \in 1..Len(server.runs) :
        server.runs[i].ws = last.ids[1] =>
            \E j \in 1..Len(last.result.items) :
                last.result.items[j].ID = server.runs[i].id

\* C10 as stated: a List returns the runs of the response in its order,
\* none dropped or repeated, and every run created in the workspace.
C10_ListOrderedAndComplete ==
    (last.op = "Runs.List" /\ last.err = "") => (InResponseOrder /\ HasEveryRun)

\* C10, amended: a List returns the runs of the response in its order, none
\* dropped or repeated; called without paging options, it returns every run
\* created in the workspace.
C10_ListOrdered ==
    (last.op = "Runs.List" /\ last.err = "") =>
        /\ InResponseOrder
        /\ (last.options.PageNumber = 0 /\ last.options.PageSize = 0) => HasEveryRun

C10_Witness ==
    /\ last.op = "Runs.List"
    /\ last.err = ""
    /\ last.options.PageSize = 0
    /\ Len(last.result.items) = 2
    /\ last.result.items[1].ID = ServerID("run-", 2)

\* What the operation hands to do as the shape of the response.
Destination(op) ==
    CASE op \in {"Accounts.Read", "Accounts.Update", "Accounts.EnableTwoFactor",
                 "Accounts.DisableTwoFactor", "Accounts.VerifyTwoFactor"} -> "Account"
      [] op \in {"Runs.Create", "Runs.Read"}                  -> "Run"
      [] op = "Runs.List"                                     -> <<"Run">>
      [] op \in {"SSHKeys.Create", "SSHKeys.Read", "SSHKeys.Update"} -> "SSHKey"
      [] op = "SSHKeys.List"                                  -> <<"SSHKey">>
      [] op \in {"Registry.Publish", "Registry.CreateModule"} -> "Module"
      [] op = "Registry.CreateModuleVersion"                  -> "ModuleVersion"
      [] OTHER                                                -> "none"

ValidationErrors ==
    InvalidValueErrors \cup {"Workspace is required", "Delivery is required",
                             "Code is required", "Name is required", "Value is required"}

\* C11: no error is swallowed or changed.  A call that fails validation
\* returns the validation error, a call whose request cannot be built
\* returns the builder's error, and a call whose request was sent returns
\* the error of do on the response it got; with an error the result is nil;
\* the error is nil only when the request was built and sent and do did not
\* fail.
C11_ErrorsPropagated ==
    last.op # "" =>
        /\ IF last.built = <<>>
           THEN last.err \in ValidationErrors /\ last.sent = 0
           ELSE IF last.sent = 0 THEN last.err = ErrBuild
           ELSE last.err = do(last.built[1], last.resp, Destination(last.op)).err
        /\ last.err # "" => last.result.kind = "nil"
        /\ last.err = "" =>
              /\ Len(last.built) = 1
              /\ last.sent = 1
              /\ last.resp.kind = "ok"

C11_Witness ==
    /\ last.op = "Registry.CreateModule"
    /\ last.sent = 1
    /\ last.resp.kind = "ok"
    /\ last.err = ErrDecode
    /\ last.result.kind = "nil"

RunActionOps == {"Runs.Apply", "Runs.Cancel", "Runs.Discard"}

Verb(op) ==
    CASE op = "Runs.Apply"   -> "apply"
      [] op = "Runs.Cancel"  -> "cancel"
      [] op = "Runs.Discard" -> "discard"

\* C12: whatever the status of the run and whether or not a comment is
\* given, Apply, Cancel and Discard called with a valid run ID build and
\* send one POST to runs/<id>/actions/<verb> carrying the options as given;
\* the only error they produce themselves is "Invalid value for run ID", for
\* an invalid run ID.
C12_NoLocalTransitionCheck ==
    last.op \in RunActionOps =>
        IF ~validStringID(last.ids[1]) THEN Rejected("Invalid value for run ID")
        ELSE /\ Len(last.built) = 1
             /\ last.sent = 1
             /\ last.built[1].method = "POST"
             /\ Split(last.built[1].path) =
                    << <<"runs">>, QueryEscape(last.ids[1]), <<"actions">>,
                       <<Verb(last.op)>> >>
             /\ last.built[1].opts = last.options
             /\ last.err \in {"", ErrNotFound}

C12_Witness ==
    /\ last.op = "Runs.Apply"
    /\ last.ids = <<ServerID("run-", 1)>>
    /\ last.options.Comment = NilStr
    /\ server.runs[1].status = RunApplied
    /\ last.sent = 1
    /\ last.err = ""

\* C13: SSHKeys.Create checks the organization before the required fields.
\* With an invalid organization it returns nil and "Invalid value for
\* organization", whether or not Name or Value is missing; it returns "Name
\* is required" or "Value is required", with nil, only for a valid
\* organization.
C13_OrganizationCheckedFirst ==
    last.op = "SSHKeys.Create" =>
        /\ ~validStringID(last.ids[1]) => Rejected("Invalid value for organization")
        /\ last.err \in {"Name is required", "Value is required"} =>
              (validStringID(last.ids[1]) /\ Rejected(last.err))

C13_Witness ==
    /\ last.op = "SSHKeys.Create"
    /\ ~validStringID(last.ids[1])
    /\ ~validString(last.options.Name)
    /\ ~validString(last.options.Value)
    /\ Rejected("Invalid value for organization")

====
